---- MODULE Spec2Model ----
(***************************************************************************)
(* Model of OCDExposure.py: the OCDExposureApp Tk application (stopwatch,  *)
(* rating log, results window, CSV export).                                *)
(*                                                                         *)
(* Time: time.time() returns float seconds.  The model counts time in      *)
(* units of 1/TicksPerSecond second (a binary fraction, so every modelled  *)
(* float is exact and Python's formatting of it can be computed exactly).  *)
(*                                                                         *)
(* Text: a Python str is modelled as a sequence of tokens; digits and      *)
(* punctuation produced by formatting are one-character tokens, fixed      *)
(* literals are a single token.                                            *)
(*                                                                         *)
(* Spec     : the Tk event loop (button clicks, the after() tick, the      *)
(*            dialogs), i.e. the program as run by app.mainloop().         *)
(* SpecApi  : direct calls of the methods start_timer / stop_timer /       *)
(*            record_rating / update_timer in any order.                   *)
(* SpecFormat : get_DisplayTime_String applied to a range of durations.    *)
(***************************************************************************)
EXTENDS Integers, Sequences, FiniteSets, TLC

VARIABLES
    now,            \* value time.time() would return (clock units)
    start_time,     \* self.start_time : None or Some(t)
    running,        \* self.running
    elapsed_time,   \* self.elapsed_time
    data,           \* self.data : sequence of <<current_time, rating>>
    timer_label,    \* text of self.timer_label
    data_text,      \* lines of self.data_text
    start_stop_text,  \* text of self.start_stop_button
    start_stop_state, \* state of self.start_stop_button
    buttons,        \* state of self.buttons[n]
    results_windows,  \* number of "Session Results" Toplevels created
    dataset_text,   \* lines of the results window's dataset_text
    plot_series,    \* what was handed to ax.plot: None or Some(<<times, ratings>>)
    save_button,    \* the "Save Results" button exists
    modal,          \* blocking call in progress: none / plot / filedialog / messagebox
    csvfile,        \* contents of the file written by save_results (NoFile if none)
    save_outcome,   \* how the latest save_results call ended
    callback_error, \* exception that left a Tk callback ("none" if none)
    tick_scheduled, \* an after(100, update_timer) callback is pending
    fmt_arg,        \* SpecFormat: argument of get_DisplayTime_String
    fmt_ret,        \* SpecFormat: its return value (None before the call)
    ran,            \* history: clock units that passed while running was true
    last_call       \* history: the handler / method that ran last

vars == <<now, start_time, running, elapsed_time, data, timer_label, data_text,
          start_stop_text, start_stop_state, buttons, results_windows,
          dataset_text, plot_series, save_button, modal, csvfile, save_outcome,
          callback_error, tick_scheduled, fmt_arg, fmt_ret, ran, last_call>>

timerVars == <<start_time, running, elapsed_time>>
labelVars == <<timer_label>>
logVars == <<data, data_text>>
buttonVars == <<start_stop_text, start_stop_state, buttons>>
resultVars == <<results_windows, dataset_text, plot_series, save_button>>
saveVars == <<csvfile, save_outcome>>
fmtVars == <<fmt_arg, fmt_ret>>

----------------------------------------------------------------------------
(* Bounds of the exploration *)
MaxNow == 3          \* the clock is explored up to this value
MaxLog == 2          \* at most this many rating presses are explored
MaxDuration == 57600 \* SpecFormat explores durations 0..MaxDuration units (3600 s)

(* Clock resolution: units per second *)
TicksPerSecond == 16

numbers == 1..10     \* the ten rating buttons

\* the rating buttons the explored sessions press (one- and two-digit labels)
PressedRatings == {4, 10}

None == <<>>
Some(x) == <<x>>
NoFile == <<>>

----------------------------------------------------------------------------
(* Text helpers *)
Digits == <<"0", "1", "2", "3", "4", "5", "6", "7", "8", "9">>

RECURSIVE Str(_)
\* str(n) / "%d" of an integer
Str(n) == IF n < 0 THEN <<"-">> \o Str(-n)
          ELSE IF n < 10 THEN <<Digits[n + 1]>>
          ELSE Str(n \div 10) \o <<Digits[(n % 10) + 1]>>

\* nearest integer to num/den, ties to the even neighbour (Python's float
\* formatting is correctly rounded, and an exact tie rounds half to even)
RoundHalfEven(num, den) ==
    LET q == num \div den
        r == num % den
    IN  IF 2 * r < den THEN q
        ELSE IF 2 * r > den THEN q + 1
        ELSE IF q % 2 = 0 THEN q ELSE q + 1

\* floor, the rounding a plausible slip would use instead
Fmt2f_Truncating(t) ==
    LET cents == (t * 100) \div TicksPerSecond
    IN  Str(cents \div 100) \o <<".">>
        \o <<Digits[((cents % 100) \div 10) + 1], Digits[(cents % 10) + 1]>>

\* f"{t:.2f}" for t clock units
Fmt2f(t) ==
    LET cents == RoundHalfEven((IF t < 0 THEN -t ELSE t) * 100, TicksPerSecond)
    IN  (IF t < 0 THEN <<"-">> ELSE <<>>)
        \o Str(cents \div 100) \o <<".">>
        \o <<Digits[((cents % 100) \div 10) + 1], Digits[(cents % 10) + 1]>>

\* get_DisplayTime_String(seconds): min = seconds//60,
\* remainingSeconds = seconds%60, f"{min:.0f}:{remainingSeconds:.0f}"
get_DisplayTime_String(seconds) ==
    LET min == seconds \div (60 * TicksPerSecond)
        remainingSeconds == seconds % (60 * TicksPerSecond)
    IN  Str(min) \o <<":">> \o Str(RoundHalfEven(remainingSeconds, TicksPerSecond))

----------------------------------------------------------------------------
(* __init__ and create_widgets *)
InitApp ==
    /\ now = 0
    /\ start_time = None
    /\ running = FALSE
    /\ elapsed_time = 0
    /\ data = <<>>
    /\ timer_label = <<"0">>
    /\ data_text = <<>>
    /\ start_stop_text = "Start"
    /\ start_stop_state = "normal"
    /\ buttons = [n \in numbers |-> "normal"]
    /\ results_windows = 0
    /\ dataset_text = <<>>
    /\ plot_series = None
    /\ save_button = FALSE
    /\ modal = "none"
    /\ csvfile = NoFile
    /\ save_outcome = "none"
    /\ callback_error = "none"
    /\ tick_scheduled = TRUE
    /\ fmt_ret = None
    /\ ran = 0
    /\ last_call = "__init__"

Init == InitApp /\ fmt_arg = 0

\* time.time() moves on by one unit; nothing of the program runs
AdvanceClock ==
    /\ now < MaxNow
    /\ now' = now + 1
    /\ ran' = IF running THEN ran + 1 ELSE ran
    /\ last_call' = "clock"
    /\ UNCHANGED <<timerVars, labelVars, logVars, buttonVars, resultVars, modal,
                   saveVars, callback_error, tick_scheduled, fmtVars>>

----------------------------------------------------------------------------
(* update_timer: the self-rescheduling after(100, ...) callback *)
update_timer_if_running_Always == TRUE

\* line 66: if self.running
update_timer_if_running == running

update_timer ==
    /\ tick_scheduled
    /\ IF update_timer_if_running
       THEN IF start_time = None
            THEN \* time.time() - None raises TypeError before after() is reached
                 /\ callback_error' = "TypeError"
                 /\ tick_scheduled' = FALSE
                 /\ UNCHANGED <<elapsed_time, timer_label>>
            ELSE /\ elapsed_time' = now - start_time[1]
                 /\ timer_label' = get_DisplayTime_String(now - start_time[1])
                 /\ UNCHANGED <<callback_error, tick_scheduled>>
       ELSE UNCHANGED <<elapsed_time, timer_label, callback_error, tick_scheduled>>
    /\ last_call' = "update_timer"
    /\ UNCHANGED <<now, start_time, running, logVars, buttonVars, resultVars,
                   modal, saveVars, fmtVars, ran>>

----------------------------------------------------------------------------
(* start_timer / stop_timer: their effect on the three timer fields *)
start_timer_if_not_running_Always == TRUE

\* line 89: if not self.running
start_timer_if_not_running == ~running

start_timer_anchor_Unset == start_time

\* line 92: self.start_time = time.time() - self.elapsed_time
start_timer_anchor == Some(now - elapsed_time)

start_timer_effect ==
    IF start_timer_if_not_running
    THEN /\ running' = TRUE
         /\ start_time' = start_timer_anchor
         /\ UNCHANGED elapsed_time
    ELSE UNCHANGED timerVars

\* what stop_timer assigns to elapsed_time: nothing, the field keeps the
\* value the last update_timer tick stored
stop_timer_elapsed == elapsed_time

stop_timer_effect ==
    /\ running' = FALSE
    /\ elapsed_time' = stop_timer_elapsed
    /\ UNCHANGED start_time

start_timer ==
    /\ start_timer_effect
    /\ last_call' = "start_timer"
    /\ UNCHANGED <<now, labelVars, logVars, buttonVars, resultVars, modal,
                   saveVars, callback_error, tick_scheduled, fmtVars, ran>>

stop_timer ==
    /\ stop_timer_effect
    /\ last_call' = "stop_timer"
    /\ UNCHANGED <<now, labelVars, logVars, buttonVars, resultVars, modal,
                   saveVars, callback_error, tick_scheduled, fmtVars, ran>>

----------------------------------------------------------------------------
(* record_rating and update_data_display *)
record_rating_guard_Always == TRUE

\* line 104: if self.running
record_rating_guard == running

current_time_FromElapsed == elapsed_time

current_time_Reversed == start_time[1] - now

\* line 105: current_time = time.time() - self.start_time
current_time == now - start_time[1]

data_append_Replacing(d, entry) == <<entry>>

\* line 106: self.data.append((current_time, rating))
data_append(d, entry) == Append(d, entry)

\* the line update_data_display inserts
display_line(t, rating) ==
    get_DisplayTime_String(t) \o <<"   ">> \o Str(rating)

record_rating(rating) ==
    /\ IF record_rating_guard
       THEN IF start_time = None
            THEN /\ callback_error' = "TypeError"
                 /\ UNCHANGED logVars
            ELSE /\ data' = data_append(data, <<current_time, rating>>)
                 /\ data_text' = Append(data_text, display_line(current_time, rating))
                 /\ UNCHANGED callback_error
       ELSE UNCHANGED <<logVars, callback_error>>
    /\ last_call' = "record_rating"
    /\ UNCHANGED <<now, timerVars, labelVars, buttonVars, resultVars, modal,
                   saveVars, tick_scheduled, fmtVars, ran>>

----------------------------------------------------------------------------
(* show_results *)
show_results_state_Normal == "normal"

\* lines 131-133: btn.config(state='disabled') for every rating button and
\* for the start/stop button
show_results_state == "disabled"

\* lines 141-143: the header line and one f"{t:.2f}, {rating}" line per entry
dataset_lines(d) ==
    <<  <<"Time (s), Rating">>  >>
    \o [i \in 1..Len(d) |-> Fmt2f(d[i][1]) \o <<", ">> \o Str(d[i][2])]

\* lines 147-150: times, ratings = zip(*self.data)
zip_data(d) == << [i \in 1..Len(d) |-> d[i][1]], [i \in 1..Len(d) |-> d[i][2]] >>

show_results_if_data_Always == TRUE

\* line 147: if self.data
show_results_if_data == data # <<>>

show_results_effect ==
    /\ buttons' = [n \in numbers |-> show_results_state]
    /\ start_stop_state' = show_results_state
    /\ results_windows' = results_windows + 1
    /\ dataset_text' = dataset_lines(data)
    /\ IF show_results_if_data
       THEN \* plt.show() blocks; the save button is created when it returns
            /\ plot_series' = Some(zip_data(data))
            /\ modal' = "plot"
            /\ UNCHANGED save_button
       ELSE /\ save_button' = TRUE
            /\ UNCHANGED <<plot_series, modal>>

\* the user closes the figure: plt.show() returns, lines 158-160 run
ClosePlot ==
    /\ modal = "plot"
    /\ modal' = "none"
    /\ save_button' = TRUE
    /\ last_call' = "show_results"
    /\ UNCHANGED <<now, timerVars, labelVars, logVars, buttonVars,
                   results_windows, dataset_text, plot_series, saveVars,
                   callback_error, tick_scheduled, fmtVars, ran>>

----------------------------------------------------------------------------
(* toggle_timer *)
toggle_timer_ShowOnStart == TRUE

\* line 83 is in the else branch only: show_results() follows stop_timer()
toggle_timer_show_on_start == FALSE

toggle_timer_stop_text_Stop == "Stop"

\* line 82: self.start_stop_button.config(text="Start")
toggle_timer_stop_text == "Start"

toggle_timer ==
    /\ IF ~running
       THEN /\ start_timer_effect
            /\ start_stop_text' = "Stop"
            /\ IF toggle_timer_show_on_start
               THEN show_results_effect
               ELSE UNCHANGED <<start_stop_state, buttons, resultVars, modal>>
       ELSE /\ stop_timer_effect
            /\ start_stop_text' = toggle_timer_stop_text
            /\ show_results_effect
    /\ last_call' = "toggle_timer"
    /\ UNCHANGED <<now, labelVars, logVars, saveVars, callback_error,
                   tick_scheduled, fmtVars, ran>>

----------------------------------------------------------------------------
(* save_results *)
\* lines 171-173: the header row and one row [f"{t:.2f}", rating] per entry
csv_rows(d) ==
    <<  << <<"Time (s)">>, <<"Rating">> >>  >>
    \o [i \in 1..Len(d) |-> << Fmt2f(d[i][1]), Str(d[i][2]) >>]

\* the save button's command starts: asksaveasfilename blocks on the dialog
save_results_ask ==
    /\ save_button
    /\ modal = "none"
    /\ modal' = "filedialog"
    /\ last_call' = "save_results"
    /\ UNCHANGED <<now, timerVars, labelVars, logVars, buttonVars, resultVars,
                   saveVars, callback_error, tick_scheduled, fmtVars, ran>>

save_results_if_filename_Always(filename) == TRUE

\* line 168: if filename
save_results_if_filename(filename) == filename # ""

\* lines 169-174 when nothing fails: the rows are written, showinfo opens
save_results_written ==
    /\ csvfile' = Some(csv_rows(data))
    /\ save_outcome' = "saved"
    /\ modal' = "messagebox"
    /\ UNCHANGED callback_error

\* the dialog returns "" : if filename is false, nothing else runs
save_results_cancel ==
    /\ modal = "filedialog"
    /\ IF save_results_if_filename("")
       THEN save_results_written
       ELSE /\ modal' = "none"
            /\ save_outcome' = "cancelled"
            /\ UNCHANGED <<csvfile, callback_error>>
    /\ last_call' = "save_results"
    /\ UNCHANGED <<now, timerVars, labelVars, logVars, buttonVars, resultVars,
                   tick_scheduled, fmtVars, ran>>

\* the dialog returns a filename; io is what the file system does with it
save_results_write(io) ==
    /\ modal = "filedialog"
    /\ \/ /\ io = "ok"
          /\ save_results_written
       \/ /\ io = "open_fails"
          \* open() raises OSError; no except clause, it leaves the callback
          /\ save_outcome' = "raised"
          /\ callback_error' = "OSError"
          /\ modal' = "none"
          /\ UNCHANGED csvfile
       \/ /\ io = "write_fails"
          \* a write raises OSError after the file was created
          /\ \E k \in 0..Len(data) : csvfile' = Some(SubSeq(csv_rows(data), 1, k))
          /\ save_outcome' = "raised"
          /\ callback_error' = "OSError"
          /\ modal' = "none"
    /\ last_call' = "save_results"
    /\ UNCHANGED <<now, timerVars, labelVars, logVars, buttonVars, resultVars,
                   tick_scheduled, fmtVars, ran>>

\* the user dismisses the "Results saved successfully!" box
save_results_done ==
    /\ modal = "messagebox"
    /\ modal' = "none"
    /\ last_call' = "save_results"
    /\ UNCHANGED <<now, timerVars, labelVars, logVars, buttonVars, resultVars,
                   saveVars, callback_error, tick_scheduled, fmtVars, ran>>

----------------------------------------------------------------------------
(* The Tk event loop: a disabled button does not run its command *)
ClickStartStop ==
    /\ start_stop_state = "normal"
    /\ toggle_timer

ClickRating(n) ==
    /\ buttons[n] = "normal"
    /\ Len(data) < MaxLog
    /\ record_rating(n)

Next ==
    \/ AdvanceClock
    \/ update_timer
    \/ ClickStartStop
    \/ \E n \in PressedRatings : ClickRating(n)
    \/ ClosePlot
    \/ save_results_ask
    \/ save_results_cancel
    \/ \E io \in {"ok", "open_fails", "write_fails"} : save_results_write(io)
    \/ save_results_done

Spec == Init /\ [][Next]_vars

----------------------------------------------------------------------------
(* Direct calls of the timer and log methods *)
CallRecordRating(n) ==
    /\ Len(data) < MaxLog
    /\ record_rating(n)

NextApi ==
    \/ AdvanceClock
    \/ update_timer
    \/ start_timer
    \/ stop_timer
    \/ \E n \in PressedRatings : CallRecordRating(n)

SpecApi == Init /\ [][NextApi]_vars

----------------------------------------------------------------------------
(* get_DisplayTime_String on its own *)
InitFormat == InitApp /\ fmt_arg \in 0..MaxDuration

CallFormat ==
    /\ fmt_ret = None
    /\ fmt_ret' = Some(get_DisplayTime_String(fmt_arg))
    /\ last_call' = "get_DisplayTime_String"
    /\ UNCHANGED <<now, timerVars, labelVars, logVars, buttonVars, resultVars,
                   modal, saveVars, callback_error, tick_scheduled, fmt_arg, ran>>

NextFormat == CallFormat

SpecFormat == InitFormat /\ [][NextFormat]_vars

----------------------------------------------------------------------------
(* Properties *)

\* the elapsed reading: now - anchor while running, the committed
\* elapsed_time while stopped
ElapsedReading == IF running THEN now - start_time[1] ELSE elapsed_time

\* C1: a record_rating call made while the timer is not running changes
\* neither the log, the running flag, the anchor, the committed elapsed time
\* nor the on-screen entry list.
C1_RecordWhileStoppedIsDropped ==
    [][ (\E n \in numbers : record_rating(n)) /\ ~running
        => /\ data' = data
           /\ running' = running
           /\ start_time' = start_time
           /\ elapsed_time' = elapsed_time
           /\ data_text' = data_text ]_vars

\* a record_rating call was made after a stop, with entries already logged
C1_Witness ==
    /\ last_call = "record_rating"
    /\ ~running
    /\ start_time # None
    /\ data # <<>>

\* C2: a record_rating(n) call made while the timer is running appends
\* exactly one entry <<now - anchor, n>> at the end of the log and leaves the
\* earlier entries as they were.
C2_RecordWhileRunningAppends ==
    [][ \A n \in numbers :
          record_rating(n) /\ running
          => /\ Len(data') = Len(data) + 1
             /\ SubSeq(data', 1, Len(data)) = data
             /\ data'[Len(data')] = <<now - start_time[1], n>> ]_vars

\* a rating was recorded at a moment when the live reading was ahead of the
\* value the last tick had stored
C2_Witness ==
    /\ last_call = "record_rating"
    /\ running
    /\ data # <<>>
    /\ data[Len(data)][1] = now - start_time[1]
    /\ data[Len(data)][1] > elapsed_time

\* C3: the elapsed reading equals the total clock time spent running
\* (stop commits now - anchor, start re-anchors at now - elapsed).
C3_ElapsedIsRunningTime == ElapsedReading = ran

\* C4: the elapsed reading never decreases from one state to the next, and
\* does not change while the timer stays stopped.
C4_ReadingMonotone ==
    [][ /\ ElapsedReading' >= ElapsedReading
        /\ (~running /\ ~running' => ElapsedReading' = ElapsedReading) ]_vars

\* C5: the time_offsets of the log are non-decreasing in recording order.
C5_OffsetsNonDecreasing ==
    \A i \in 1..(Len(data) - 1) : data[i][1] <= data[i + 1][1]

\* every rating button and the start/stop button are disabled
ControlsDisabled ==
    /\ start_stop_state = "disabled"
    /\ \A n \in numbers : buttons[n] = "disabled"

\* C6: once the results view has opened, all rating controls and the
\* start/stop control are disabled and stay so; the timer is never running
\* again, the committed elapsed time never changes and the log never grows.
C6_ResultsFreezeSession ==
    /\ [](results_windows > 0 => ControlsDisabled /\ ~running)
    /\ [][ results_windows > 0
           => /\ results_windows' > 0
              /\ elapsed_time' = elapsed_time
              /\ data' = data ]_vars

\* the results view is open, and a display tick has fired at a clock value
\* later than the one the committed elapsed time stands for
C6_Witness ==
    /\ results_windows > 0
    /\ last_call = "update_timer"
    /\ data # <<>>
    /\ now - start_time[1] > elapsed_time

\* C7: the results view is opened at most once; a step opens it if and only
\* if it is a toggle that takes the timer from running to stopped.
C7_ResultsOpenedOnce ==
    /\ [](results_windows <= 1)
    /\ [][ (results_windows' # results_windows)
           <=> (toggle_timer /\ running /\ ~running') ]_vars

\* the results view has been opened by the stop toggle
C7_Witness ==
    /\ results_windows = 1
    /\ last_call = "toggle_timer"
    /\ ~running

----------------------------------------------------------------------------
(* Reading the written CSV fields back *)
DigitValue(c) == CHOOSE d \in 0..9 : Digits[d + 1] = c

IsDigit(c) == \E d \in 0..9 : Digits[d + 1] = c

RECURSIVE ParseInt(_)
\* int(s) for a sequence of digit tokens
ParseInt(s) == IF Len(s) = 0 THEN 0
               ELSE 10 * ParseInt(SubSeq(s, 1, Len(s) - 1)) + DigitValue(s[Len(s)])

AllDigits(s) == Len(s) > 0 /\ \A i \in 1..Len(s) : IsDigit(s[i])

\* s is digits "." digit digit
IsTwoDecimal(s) ==
    /\ Len(s) >= 4
    /\ s[Len(s) - 2] = "."
    /\ AllDigits(SubSeq(s, 1, Len(s) - 3))
    /\ AllDigits(SubSeq(s, Len(s) - 1, Len(s)))

\* the hundredths of a second a two-decimal string denotes
ParseHundredths(s) ==
    100 * ParseInt(SubSeq(s, 1, Len(s) - 3)) + ParseInt(SubSeq(s, Len(s) - 1, Len(s)))

Abs(x) == IF x < 0 THEN -x ELSE x

\* |h/100 - t/TicksPerSecond| in units of 1/(100 * TicksPerSecond) second
ParseError(s, t) == Abs(ParseHundredths(s) * TicksPerSecond - 100 * t)

\* the layout of a written file: the header, then one row per log entry in
\* recording order holding a two-decimal time and the rating as integer text
CsvLayout(rows) ==
    /\ Len(rows) = Len(data) + 1
    /\ rows[1] = << <<"Time (s)">>, <<"Rating">> >>
    /\ \A i \in 1..Len(data) :
         /\ Len(rows[i + 1]) = 2
         /\ IsTwoDecimal(rows[i + 1][1])
         /\ AllDigits(rows[i + 1][2])
         /\ ParseInt(rows[i + 1][2]) = data[i][2]

\* C8 (as stated): after a successful export the file has the layout above
\* and every time string parses back to within less than 0.005 s of the
\* stored time_offset.
C8_CsvRoundTripStrict ==
    save_outcome = "saved"
    => /\ CsvLayout(csvfile[1])
       /\ \A i \in 1..Len(data) :
            2 * ParseError(csvfile[1][i + 1][1], data[i][1]) < TicksPerSecond

\* C8 (amended): after a successful export the file has the layout above and
\* every time string denotes a number within at most 0.005 s of the stored
\* time_offset (exactly 0.005 when the offset lies halfway between two
\* hundredths).
C8_CsvRoundTrip ==
    save_outcome = "saved"
    => /\ CsvLayout(csvfile[1])
       /\ \A i \in 1..Len(data) :
            2 * ParseError(csvfile[1][i + 1][1], data[i][1]) <= TicksPerSecond

\* a file was written from a log of two entries, one of them halfway between
\* two hundredths and one of them not on a hundredth
C8_Witness ==
    /\ save_outcome = "saved"
    /\ Len(data) = 2
    /\ \E i \in 1..2 : 2 * ((100 * data[i][1]) % TicksPerSecond) = TicksPerSecond
    /\ \E i \in 1..2 : 2 * ((100 * data[i][1]) % TicksPerSecond) > TicksPerSecond

----------------------------------------------------------------------------
\* a non-negative integer below 100 as two digits
Pad2(n) == IF n < 10 THEN <<"0">> \o Str(n) ELSE Str(n)

\* MM:SS by truncation: minutes = floor(d / 60), seconds = floor(d) mod 60
format_mm_ss(d) ==
    Pad2(d \div (60 * TicksPerSecond)) \o <<":">> \o Pad2((d \div TicksPerSecond) % 60)

\* C9: the formatter renders a duration d as MM:SS, minutes = floor(d / 60),
\* seconds = floor(d) mod 60, truncated and zero-padded to width 2.
C9_FormatIsMMSS ==
    fmt_ret # None => fmt_ret[1] = format_mm_ss(fmt_arg)

\* C10: when the write fails after a filename was chosen, the save action
\* ends with the error reported: no exception leaves the handler, no success
\* confirmation is shown, and the timer state and the log are unchanged.
C10_WriteFailureReported ==
    [][ \A io \in {"open_fails", "write_fails"} :
          save_results_write(io)
          => /\ save_outcome' = "error_reported"
             /\ callback_error' = callback_error
             /\ modal' # "messagebox"
             /\ UNCHANGED <<timerVars, data>> ]_vars

----------------------------------------------------------------------------
\* C11: when the timer was started and stopped by toggle with no rating
\* recorded, the results view lists the header line only, the plotting step
\* is skipped, and a CSV export writes the header row and nothing else.
C11_EmptySessionResults ==
    (results_windows > 0 /\ data = <<>>)
    => /\ dataset_text = << <<"Time (s), Rating">> >>
       /\ plot_series = None
       /\ modal # "plot"
       /\ (save_outcome = "saved"
           => csvfile = Some(<< << <<"Time (s)">>, <<"Rating">> >> >>))

\* a session without ratings was stopped and then exported
C11_Witness ==
    /\ results_windows = 1
    /\ data = <<>>
    /\ ran > 0
    /\ save_outcome = "saved"

\* s is t with zero or more entries added at the end
IsPrefix(s, t) == Len(s) <= Len(t) /\ SubSeq(t, 1, Len(s)) = s

\* C12: the log is append-only: every step leaves the earlier log as a
\* prefix of the later one, and only a record_rating step extends it.
C12_LogAppendOnly ==
    [][ /\ IsPrefix(data, data')
        /\ (data' # data => \E n \in numbers : record_rating(n)) ]_vars

\* two entries were logged, the results were shown and exported
C12_Witness ==
    /\ Len(data) = 2
    /\ results_windows = 1
    /\ save_outcome = "saved"
    /\ modal = "none"

\* a step of the export action: the dialog opening, its answer, the write,
\* the confirmation being dismissed
SaveResultsStep ==
    \/ save_results_ask
    \/ save_results_cancel
    \/ \E io \in {"ok", "open_fails", "write_fails"} : save_results_write(io)
    \/ save_results_done

\* C13: no step of the export action changes running, the anchor, the
\* elapsed time or the log; when the dialog is cancelled no file is written,
\* no exception is raised and no success confirmation is shown.
C13_ExportLeavesSessionAlone ==
    [][ /\ SaveResultsStep => UNCHANGED <<timerVars, data>>
        /\ save_results_cancel
           => /\ csvfile' = csvfile
              /\ callback_error' = callback_error
              /\ modal' = "none"
              /\ save_outcome' # "saved" ]_vars

\* the dialog was cancelled for a session with logged entries, and no file
\* exists
C13_Witness ==
    /\ save_outcome = "cancelled"
    /\ csvfile = NoFile
    /\ data # <<>>
    /\ results_windows = 1

----------------------------------------------------------------------------
\* C14: toggle_timer is a two-state machine over running, stopped at the
\* start: a toggle while stopped starts the timer and presents no results, a
\* toggle while running stops it and presents the results; every toggle
\* flips the running flag.
C14_ToggleStateMachine ==
    /\ ~running
    /\ [](running \in BOOLEAN)
    /\ [][ toggle_timer
           => /\ running' = ~running
              /\ (~running => results_windows' = results_windows)
              /\ (running => results_windows' = results_windows + 1) ]_vars

\* the timer was toggled on, ran for a while, and was toggled off again
C14_Witness ==
    /\ last_call = "toggle_timer"
    /\ ~running
    /\ ran > 0
    /\ results_windows = 1

\* C15: start_timer on a running timer leaves running, the anchor and the
\* elapsed time unchanged; stop_timer on a stopped timer leaves running and
\* the elapsed time unchanged.
C15_StartStopIdempotent ==
    [][ /\ (start_timer /\ running) => UNCHANGED timerVars
        /\ (stop_timer /\ ~running)
           => (running' = running /\ elapsed_time' = elapsed_time) ]_vars

\* start_timer was called on a timer that was already running: the anchor
\* is not the one a fresh start at this clock value would set
C15_Witness ==
    /\ last_call = "start_timer"
    /\ running
    /\ start_time # Some(now - elapsed_time)

----------------------------------------------------------------------------
\* C16: a display tick while the timer is stopped changes neither running,
\* the anchor, the committed elapsed time, the log nor the time label, and
\* every tick leaves the next tick scheduled.
C16_TickWhileStoppedIsNoOp ==
    /\ [](tick_scheduled)
    /\ [][ update_timer
           => /\ tick_scheduled'
              /\ (~running => UNCHANGED <<timerVars, data, timer_label>>) ]_vars

\* a tick fired on a stopped timer whose label shows the value of the last
\* tick before the stop, at a clock value for which a running timer would
\* have shown a later time
C16_Witness ==
    /\ last_call = "update_timer"
    /\ ~running
    /\ start_time # None
    /\ elapsed_time > 0
    /\ timer_label = get_DisplayTime_String(elapsed_time)
    /\ now - start_time[1] > elapsed_time

\* C17: every entry of the log has a rating in 1..10 and a time_offset >= 0.
C17_EntriesInDomain ==
    \A i \in 1..Len(data) :
        /\ data[i][2] \in 1..10
        /\ data[i][1] >= 0

\* the log holds an entry taken at offset zero and an entry with the
\* highest rating
C17_Witness ==
    /\ Len(data) = 2
    /\ data[1][1] = 0
    /\ data[2][1] > 0
    /\ \E i \in 1..2 : data[i][2] = 10

\* C18: whenever the timer is running the anchor start_time is set, so
\* neither the tick nor record_rating ever subtracts an unset anchor.
C18_RunningHasAnchor ==
    /\ running => start_time # None
    /\ callback_error # "TypeError"

\* while running, a tick has computed an elapsed time and a rating has been
\* recorded from the anchor
C18_Witness ==
    /\ running
    /\ last_call = "record_rating"
    /\ elapsed_time > 0
    /\ data # <<>>

\* C19: the start/stop button reads "Stop" exactly when the timer is running
\* and "Start" exactly when it is not.
C19_LabelMatchesState ==
    /\ start_stop_text \in {"Start", "Stop"}
    /\ start_stop_text = "Stop" <=> running

\* the button has been pressed to stop: it reads "Start" again and is
\* disabled
C19_Witness ==
    /\ start_stop_text = "Start"
    /\ ~running
    /\ start_time # None
    /\ start_stop_state = "disabled"

====
